---- MODULE Spec2Model ----
(***************************************************************************)
(* withdraw-commission: the single linear pipeline of src/main.rs.  One    *)
(* run of main() is modelled as a state machine: the command-line          *)
(* arguments and the key file are fixed in Init, every statement of main   *)
(* that can fail (or that talks to the network) is one action, and the     *)
(* outcomes of the remote calls are chosen by the environment when the     *)
(* call is made.  Text is a sequence of one-character strings, so that     *)
(* trimming, hex decoding and the parsers are computed as the code does.   *)
(***************************************************************************)
EXTENDS Integers, Sequences, FiniteSets, TLC

\* ------------------------------------------------------------- bounds
\* Most whitespace characters put on each side of the key text in the file.
MaxPad == 1
\* Key texts of 0..MaxShortLen hex digits are tried (besides "deadbeef").
MaxShortLen == 3
\* Key texts of 2*KeyLen - MaxDelta .. 2*KeyLen + MaxDelta digits are tried.
MaxDelta == 2
\* Account numbers 0..MaxAccountNumber and sequences 0..MaxSequence are
\* what the queried node may hold for the account.
MaxAccountNumber == 1
MaxSequence == 2

\* ---------------------------------------------------- program constants
\* secp256k1 secret scalars are 32 bytes (SigningKey::from_slice).
KeyLen == 32
\* tendermint::chain::Id accepts at most 50 characters.
MaxChainIdLen == 50
\* Height::try_from(u64) is i64::try_from: the top 16-bit limb of the
\* value must be at most 0x7fff.
I64MaxTopLimb == 32767
\* Coin::new(1000, denom) and Fee::from_amount_and_gas(coin, 200000).
FeeAmount == 1000
GasLimit == 200000
\* Exit codes of the Rust runtime: main returned Err, main panicked.
ExitFailure == 1
ExitPanic == 101

\* ------------------------------------------------------------ options
None == << >>
Some(v) == << v >>
IsSome(o) == o # << >>
Unwrap(o) == o[1]

Ok(v) == [ok |-> TRUE, val |-> v]
Err(e) == [ok |-> FALSE, err |-> e]

\* --------------------------------------------------------------- text
RECURSIVE Rep(_, _)
Rep(c, n) == IF n <= 0 THEN << >> ELSE << c >> \o Rep(c, n - 1)

Lower == {"a", "b", "c", "d", "e", "f", "g", "h", "i", "j", "k", "l", "m",
          "n", "o", "p", "q", "r", "s", "t", "u", "v", "w", "x", "y", "z"}
Upper == {"A", "B", "C", "D", "E", "F", "G", "H", "I", "J", "K", "L", "M",
          "N", "O", "P", "Q", "R", "S", "T", "U", "V", "W", "X", "Y", "Z"}
Digit == {"0", "1", "2", "3", "4", "5", "6", "7", "8", "9"}

\* str::trim: leading and trailing whitespace removed.
IsWhitespace(c) == c \in {" ", "\n", "\t", "\r"}

RECURSIVE TrimStart(_)
TrimStart(s) ==
    IF s # << >> /\ IsWhitespace(Head(s)) THEN TrimStart(Tail(s)) ELSE s

RECURSIVE TrimEnd(_)
TrimEnd(s) ==
    IF s # << >> /\ IsWhitespace(s[Len(s)])
    THEN TrimEnd(SubSeq(s, 1, Len(s) - 1))
    ELSE s

Trim(s) == TrimEnd(TrimStart(s))

\* hex::decode: an odd number of digits is rejected first, then any
\* character that is not a hex digit; two digits make one byte.
HexLower == << "0", "1", "2", "3", "4", "5", "6", "7", "8", "9",
               "a", "b", "c", "d", "e", "f" >>
HexUpper == << "0", "1", "2", "3", "4", "5", "6", "7", "8", "9",
               "A", "B", "C", "D", "E", "F" >>

IsHexDigit(c) == \E i \in 1..16 : HexLower[i] = c \/ HexUpper[i] = c

HexVal(c) == (CHOOSE i \in 1..16 : HexLower[i] = c \/ HexUpper[i] = c) - 1

HexDecode(s) ==
    IF Len(s) % 2 # 0 THEN Err("Odd number of digits")
    ELSE IF \E i \in 1..Len(s) : ~IsHexDigit(s[i])
    THEN Err("Invalid character")
    ELSE Ok([i \in 1..(Len(s) \div 2) |->
                16 * HexVal(s[2 * i - 1]) + HexVal(s[2 * i])])

\* ---------------------------------------------------------------- keys
\* The order of the secp256k1 group, big-endian: a secret scalar must be
\* non-zero and below it.
CurveOrder == Rep(255, 15) \o
    << 254, 186, 174, 220, 230, 175, 72, 160, 59,
       191, 210, 94, 140, 208, 54, 65, 65 >>

\* Big-endian a < b for byte strings of equal length.
BytesLess(a, b) ==
    \E i \in 1..Len(a) :
        /\ a[i] < b[i]
        /\ \A j \in 1..(i - 1) : a[j] = b[j]

\* Mutant: the length of the slice is not checked.
SigningKeyFromSlice_AnyLength(bytes) ==
    IF \E i \in 1..Len(bytes) : bytes[i] # 0
    THEN Ok([secret |-> bytes])
    ELSE Err("cryptographic error")

\* SigningKey::from_slice: exactly KeyLen bytes holding a valid scalar.
SigningKeyFromSlice(bytes) ==
    IF Len(bytes) = KeyLen
       /\ (\E i \in 1..Len(bytes) : bytes[i] # 0)
       /\ BytesLess(bytes, CurveOrder)
    THEN Ok([secret |-> bytes])
    ELSE Err("cryptographic error")

\* signing_key.public_key(): determined by the secret scalar.
PublicKey(sk) == [point_of |-> sk.secret]

\* PublicKey::account_id(prefix): the prefix must be non-empty lowercase
\* alphanumeric; the address bytes are a hash of the public key.
AccountId(pk, prefix) ==
    IF prefix # << >> /\ \A i \in 1..Len(prefix) : prefix[i] \in Lower \cup Digit
    THEN Ok([prefix |-> prefix, hash_of |-> pk])
    ELSE Err("invalid account ID")

\* AccountId's Display: the bech32 text of prefix and address bytes.
AccountIdToString(id) == [bech32 |-> << id.prefix, id.hash_of >>]

PrefixAccount == << "s", "o", "m", "m" >>
PrefixOperator == << "s", "o", "m", "m", "v", "a", "l", "o", "p", "e", "r" >>

\* ------------------------------------------------------------- parsers
\* tendermint::chain::Id::from_str: 1..MaxChainIdLen characters, each a
\* letter, a digit, '-', '_' or '.'.
ChainIdFromStr(s) ==
    IF s = << >> \/ Len(s) > MaxChainIdLen THEN Err("chain id length")
    ELSE IF \E i \in 1..Len(s) :
                s[i] \notin Lower \cup Upper \cup Digit \cup {"-", "_", "."}
    THEN Err("chain id charset")
    ELSE Ok([chain_id |-> s])

\* Coin::new(amount, denom): the denomination is parsed; every character
\* must be a letter, a digit or one of "/:._-".
CoinNew(amount, denom) ==
    IF \A i \in 1..Len(denom) :
           denom[i] \in Lower \cup Upper \cup Digit \cup {"/", ":", ".", "_", "-"}
    THEN Ok([denom |-> denom, amount |-> amount])
    ELSE Err("invalid denomination")

\* A u64 is four 16-bit limbs, most significant first.
\* Height::try_from(u64): the value must fit an i64.
HeightTryFrom(u) ==
    IF u[1] <= I64MaxTopLimb THEN Ok([height |-> u])
    ELSE Err("integer overflow")

StartsWith(s, p) == Len(s) >= Len(p) /\ SubSeq(s, 1, Len(p)) = p

\* Channel::from_shared: the text must be a URI (not empty, no whitespace).
UriFromShared(s) ==
    IF s # << >> /\ \A i \in 1..Len(s) : ~IsWhitespace(s[i])
    THEN Ok([uri |-> s])
    ELSE Err("invalid uri")

\* HttpClient::new: a URL with the http or https scheme.
HttpClientNew(s) ==
    IF /\ UriFromShared(s).ok
       /\ \/ StartsWith(s, << "h", "t", "t", "p", ":", "/", "/" >>)
          \/ StartsWith(s, << "h", "t", "t", "p", "s", ":", "/", "/" >>)
    THEN Ok([url |-> s])
    ELSE Err("invalid url")

\* ------------------------------------------------------------- protobuf
\* A message on the wire is a sequence of fields: the field number, the
\* wire type, and the payload (text or nested bytes for a length-delimited
\* field, with whether the bytes are UTF-8; a number for a varint).
BaseAccountUrl == "/cosmos.auth.v1beta1.BaseAccount"
DelayedVestingUrl == "/cosmos.vesting.v1beta1.DelayedVestingAccount"

LenField(num, payload, utf8) ==
    [num |-> num, wt |-> "len", bytes |-> Some(payload), utf8 |-> utf8, int |-> 0]
VarintField(num, n) ==
    [num |-> num, wt |-> "varint", bytes |-> None, utf8 |-> FALSE, int |-> n]

\* What a node sends for a BaseAccount: proto3 leaves out fields holding
\* their default (empty text, zero).
EncodeBaseAccount(a) ==
    (IF a.address = None THEN << >>
     ELSE << LenField(1, Unwrap(a.address), TRUE) >>)
    \o (IF a.account_number = 0 THEN << >>
        ELSE << VarintField(3, a.account_number) >>)
    \o (IF a.sequence = 0 THEN << >>
        ELSE << VarintField(4, a.sequence) >>)

DefaultBaseAccount ==
    [address |-> None, pub_key |-> None, account_number |-> 0, sequence |-> 0]

\* One field merged into the record decoded so far (a Result).
MergeBaseAccountField(acc, f) ==
    IF ~acc.ok THEN acc
    ELSE IF f.num = 0 THEN Err("invalid tag value: 0")
    ELSE IF f.wt \notin {"len", "varint"} THEN Err("invalid wire type value")
    ELSE IF f.num = 1 THEN
        IF f.wt # "len" THEN Err("invalid wire type")
        ELSE IF ~f.utf8 THEN Err("invalid string value: data is not UTF-8 encoded")
        ELSE Ok([acc.val EXCEPT !.address = f.bytes])
    ELSE IF f.num = 2 THEN
        IF f.wt # "len" THEN Err("invalid wire type")
        ELSE Ok([acc.val EXCEPT !.pub_key = f.bytes])
    ELSE IF f.num = 3 THEN
        IF f.wt # "varint" THEN Err("invalid wire type")
        ELSE Ok([acc.val EXCEPT !.account_number = f.int])
    ELSE IF f.num = 4 THEN
        IF f.wt # "varint" THEN Err("invalid wire type")
        ELSE Ok([acc.val EXCEPT !.sequence = f.int])
    ELSE acc

\* BaseAccount::decode(bytes): the fields are merged in order into the
\* default record; the Any's type_url is not looked at.
RECURSIVE DecodeFrom(_, _)
DecodeFrom(acc, fields) ==
    IF fields = << >> THEN acc
    ELSE DecodeFrom(MergeBaseAccountField(acc, Head(fields)), Tail(fields))

BaseAccountDecode(fields) == DecodeFrom(Ok(DefaultBaseAccount), fields)

\* ----------------------------------------------------- signing, encoding
\* Fallible library calls whose failure no argument of this program decides
\* (Msg::to_any, SignDoc::new, SignDoc::sign, Raw::to_bytes): the caller
\* handles both results, so both are possible outcomes here.
LibResults(v, e) == {Ok(v), Err(e)}

\* Body::new(vec![any], memo, timeout_height)
BodyNew(any, memo, height) ==
    [messages |-> << any >>, memo |-> memo, timeout_height |-> height]

\* Fee::from_amount_and_gas(coin, gas)
FeeFromAmountAndGas(coin, gas) == [amount |-> << coin >>, gas_limit |-> gas]

\* SignerInfo::single_direct(Some(public_key), sequence)
SignerInfoSingleDirect(pk, sequence) ==
    [public_key |-> Some(pk), mode |-> "direct", sequence |-> sequence]

\* SignDoc::new(body, auth_info, chain_id, account_number)
SignDocNew(body, auth_info, chain_id, account_number) ==
    [body_bytes |-> [encoded |-> body],
     auth_info_bytes |-> [encoded |-> auth_info],
     chain_id |-> chain_id.chain_id,
     account_number |-> account_number]

\* SignDoc::sign(key): the raw transaction with the signature attached.
SignDocSign(doc, sk) ==
    [body_bytes |-> doc.body_bytes,
     auth_info_bytes |-> doc.auth_info_bytes,
     signatures |-> << [signed |-> doc, by |-> sk.secret] >>]

\* ------------------------------------------------------------- inputs
Text_sommelier3 == << "s", "o", "m", "m", "e", "l", "i", "e", "r", "-", "3" >>
Text_usomm == << "u", "s", "o", "m", "m" >>
Text_deadbeef == << "d", "e", "a", "d", "b", "e", "e", "f" >>

KeyDigits == {"0", "a", "B", "f", "g"}
KeyTextLens ==
    (0..MaxShortLen) \cup ((2 * KeyLen - MaxDelta)..(2 * KeyLen + MaxDelta))
KeyTexts == {Rep(d, n) : d \in KeyDigits, n \in KeyTextLens} \cup {Text_deadbeef}

\* The key file: unreadable (None), or a key text with whitespace around.
KeyFiles ==
    {None} \cup
    {Some(Rep(" ", l) \o t \o Rep("\n", r)) :
        t \in KeyTexts, l \in 0..MaxPad, r \in 0..MaxPad}

ChainIds == {Text_sommelier3, << "b", "a", "d", " ", "i", "d" >>,
             Rep("c", MaxChainIdLen + 1)}
Denoms == {Text_usomm, << "u", "$" >>}
\* u64 values as limbs: 0, i64::MAX, i64::MAX + 1.
TimeoutHeights == {<< 0, 0, 0, 0 >>,
                   << I64MaxTopLimb, 65535, 65535, 65535 >>,
                   << I64MaxTopLimb + 1, 0, 0, 0 >>}
GrpcUrls == {<< "h", "t", "t", "p", "s", ":", "/", "/", "g" >>, << >>}
RpcUrls == {<< "h", "t", "t", "p", "s", ":", "/", "/", "r" >>,
            << "f", "t", "p", ":", "/", "/", "r" >>}

ArgsSet ==
    [chain_id : ChainIds, rpc_url : RpcUrls, grpc_url : GrpcUrls,
     denom : Denoms, timeout_height : TimeoutHeights]

\* What the queried node may answer to QueryAccountRequest{address}: an
\* error status, a response without account, the BaseAccount it holds for
\* the address, an account of another type (whose field 1 is a nested
\* message, UTF-8 or not), or bytes that are no message.
AccountAnys(address) ==
    {[type_url |-> BaseAccountUrl,
      value |-> EncodeBaseAccount([address |-> Some(address),
                                   account_number |-> a, sequence |-> s])] :
        a \in 0..MaxAccountNumber, s \in 0..MaxSequence}
    \cup {[type_url |-> DelayedVestingUrl,
           value |-> << LenField(1, [nested |-> address], u) >>] :
            u \in BOOLEAN}
    \cup {[type_url |-> BaseAccountUrl,
           value |-> << LenField(3, [nested |-> address], FALSE) >>]}

AccountResults(address) ==
    {Err("status: NotFound"), Err("status: Unavailable"),
     Ok([account |-> None])}
    \cup {Ok([account |-> Some(any)]) : any \in AccountAnys(address)}

\* What broadcast_tx_commit may return: a transport error, or the node's
\* response (accepted, rejected by CheckTx, failed in DeliverTx).
TxResult(code, txlog) == [code |-> code, log |-> txlog]
BroadcastResponses ==
    {[check_tx |-> TxResult(0, ""), tx_result |-> TxResult(0, ""),
      hash |-> "A1B2", height |-> 7],
     [check_tx |-> TxResult(13, "insufficient fee"), tx_result |-> TxResult(0, ""),
      hash |-> "A1B2", height |-> 0],
     [check_tx |-> TxResult(0, ""), tx_result |-> TxResult(11, "out of gas"),
      hash |-> "A1B2", height |-> 7]}
BroadcastResults ==
    {Err("transport error")} \cup {Ok(r) : r \in BroadcastResponses}

\* --------------------------------------------------------------- state
VARIABLES
    args,      \* Args::parse(): the command line
    key_file,  \* the content of the file at signing_key_path, if readable
    pc,        \* the statement of main the run is at (or stopped at)
    status,    \* "running", "ok" (main returned Ok), "err" (main returned
               \* Err), "panic" (main panicked)
    m,         \* main's local variables, None until assigned
    log,       \* the lines written through the log crate
    stdout,    \* the lines written by println!
    stderr,    \* what the runtime prints for the run's failure
    net        \* the remote calls issued, in order

vars == << args, key_file, pc, status, m, log, stdout, stderr, net >>

Locals == {"private_key", "decoded_private_key", "signing_key",
           "validator_address", "validator_operator_address", "msg", "any",
           "tx_body", "fee", "channel", "request", "account_info",
           "account_any", "base_account", "account_number",
           "sequence_number", "chain_id", "signer_info", "sign_doc",
           "tx_raw", "client", "tx_bytes", "response"}

Init ==
    /\ args \in ArgsSet
    /\ key_file \in KeyFiles
    /\ pc = "start"
    /\ status = "running"
    /\ m = [v \in Locals |-> None]
    /\ log = << >>
    /\ stdout = << >>
    /\ stderr = << >>
    /\ net = << >>

\* The process exit status of a finished run.
ExitCode ==
    CASE status = "ok" -> 0
      [] status = "err" -> ExitFailure
      [] status = "panic" -> ExitPanic

At(label) == status = "running" /\ pc = label

\* log::info!(..) / log::error!(..)
LogLine(level, ctx, detail) == [level |-> level, ctx |-> ctx, detail |-> detail]

\* A statement that succeeded: control moves on.
Goto(next) ==
    /\ pc' = next
    /\ UNCHANGED << args, key_file, status, stdout, stderr >>

\* The Err arm of a match: log::error!("<ctx>: {}", e) and
\* return Err(eyre::Report::msg(format!("<ctx>: {}", e))).
LogAndReturnErr(ctx, e) ==
    /\ log' = Append(log, LogLine("ERROR", ctx, e))
    /\ stderr' = Append(stderr, [ctx |-> ctx, detail |-> e])
    /\ status' = "err"
    /\ UNCHANGED << args, key_file, pc, m, stdout >>

\* The ? operator: the library's error is returned as it is.
ReturnErr(e) ==
    /\ stderr' = Append(stderr, [ctx |-> "", detail |-> e])
    /\ status' = "err"
    /\ UNCHANGED << args, key_file, pc, m, stdout, log >>

\* A panic unwinds main: the runtime prints the panic message.
Panic(msg) ==
    /\ stderr' = Append(stderr, [ctx |-> "panicked", detail |-> msg])
    /\ status' = "panic"
    /\ UNCHANGED << args, key_file, pc, m, stdout, log >>

\* A local variable assigned by a statement that made no remote call.
Assign(next, name, value) ==
    /\ Goto(next)
    /\ m' = [m EXCEPT ![name] = Some(value)]
    /\ UNCHANGED << log, net >>

\* A remote call goes out (whatever comes back).
Call(name, ok) == net' = Append(net, [call |-> name, ok |-> ok])

\* -------------------------------------------------------------- actions
\* log::info!("Starting withdraw-commission"); Args::parse()
Start ==
    /\ At("start")
    /\ Goto("read_key")
    /\ log' = Append(log, LogLine("INFO", "Starting withdraw-commission", None))
    /\ UNCHANGED << m, net >>

\* fs::read_to_string(&args.signing_key_path), trimmed
ReadKey ==
    /\ At("read_key")
    /\ IF IsSome(key_file)
       THEN Assign("hex_decode", "private_key", Trim(Unwrap(key_file)))
       ELSE /\ LogAndReturnErr("Failed to read private key from file",
                               "No such file or directory")
            /\ UNCHANGED net

\* hex::decode(&private_key)
DecodeKey ==
    /\ At("hex_decode")
    /\ LET r == HexDecode(Unwrap(m.private_key)) IN
       IF r.ok
       THEN Assign("signing_key", "decoded_private_key", r.val)
       ELSE /\ LogAndReturnErr("Failed to decode private key", r.err)
            /\ UNCHANGED net

\* SigningKey::from_slice(&decoded_private_key)
CreateSigningKey ==
    /\ At("signing_key")
    /\ LET r == SigningKeyFromSlice(Unwrap(m.decoded_private_key)) IN
       IF r.ok
       THEN Assign("validator_address", "signing_key", r.val)
       ELSE /\ LogAndReturnErr("Failed to create signing key", r.err)
            /\ UNCHANGED net

\* signing_key.public_key().account_id("somm")
DeriveValidatorAddress ==
    /\ At("validator_address")
    /\ LET r == AccountId(PublicKey(Unwrap(m.signing_key)), PrefixAccount) IN
       IF r.ok
       THEN Assign("validator_operator_address", "validator_address", r.val)
       ELSE /\ LogAndReturnErr("Failed to get validator address", r.err)
            /\ UNCHANGED net

\* signing_key.public_key().account_id("sommvaloper")
DeriveOperatorAddress ==
    /\ At("validator_operator_address")
    /\ LET r == AccountId(PublicKey(Unwrap(m.signing_key)), PrefixOperator) IN
       IF r.ok
       THEN Assign("msg", "validator_operator_address", r.val)
       ELSE /\ LogAndReturnErr("Failed to get validator operator address", r.err)
            /\ UNCHANGED net

\* The two address log lines, and
\* MsgWithdrawValidatorCommission { validator_address: validator_operator_address }
CreateMsg ==
    /\ At("msg")
    /\ Goto("any")
    /\ log' = log \o
         << LogLine("INFO", "Validator address",
                    Some(AccountIdToString(Unwrap(m.validator_address)))),
            LogLine("INFO", "Validator operator address",
                    Some(AccountIdToString(Unwrap(m.validator_operator_address)))) >>
    /\ m' = [m EXCEPT !["msg"] =
               Some([type |-> "MsgWithdrawValidatorCommission",
                     validator_address |-> Unwrap(m.validator_operator_address)])]
    /\ UNCHANGED net

\* msg.to_any()
ToAny ==
    /\ At("any")
    /\ \E r \in LibResults([type_url |->
                              "/cosmos.distribution.v1beta1.MsgWithdrawValidatorCommission",
                            value |-> [encoded |-> Unwrap(m.msg)]],
                           "encode error") :
         IF r.ok
         THEN Assign("tx_body", "any", r.val)
         ELSE /\ LogAndReturnErr("Failed to create any", r.err)
              /\ UNCHANGED net

\* Body::new(vec![any], memo, Height::try_from(args.timeout_height)?)
CreateBody ==
    /\ At("tx_body")
    /\ LET h == HeightTryFrom(args.timeout_height) IN
       IF h.ok
       THEN Assign("fee", "tx_body",
                   BodyNew(Unwrap(m.any), "Withdraw validator commission", h.val))
       ELSE /\ ReturnErr(h.err)
            /\ UNCHANGED net

\* Mutant: the chain id is validated with the other arguments, before any
\* remote call.
CreateFee_ChecksChainId ==
    /\ At("fee")
    /\ LET r == CoinNew(FeeAmount, args.denom)
           c == ChainIdFromStr(args.chain_id) IN
       IF ~c.ok
       THEN /\ LogAndReturnErr("Failed to parse chain ID", c.err)
            /\ UNCHANGED net
       ELSE IF r.ok
       THEN Assign("connect", "fee", FeeFromAmountAndGas(r.val, GasLimit))
       ELSE /\ LogAndReturnErr("Failed to create coin", r.err)
            /\ UNCHANGED net

\* Coin::new(1000, &args.denom); Fee::from_amount_and_gas(coin, 200000)
CreateFee ==
    /\ At("fee")
    /\ LET r == CoinNew(FeeAmount, args.denom) IN
       IF r.ok
       THEN Assign("connect", "fee", FeeFromAmountAndGas(r.val, GasLimit))
       ELSE /\ LogAndReturnErr("Failed to create coin", r.err)
            /\ UNCHANGED net

\* Channel::from_shared(args.grpc_url.clone())?.connect().await?
\* and the QueryAccountRequest for validator_address
Connect ==
    /\ At("connect")
    /\ LET u == UriFromShared(args.grpc_url) IN
       IF ~u.ok
       THEN /\ ReturnErr(u.err)
            /\ UNCHANGED net
       ELSE \E connected \in BOOLEAN :
            /\ Call("connect", connected)
            /\ IF connected
               THEN /\ Goto("query")
                    /\ m' = [m EXCEPT
                         !["channel"] = Some(u.val),
                         !["request"] = Some([address |->
                             AccountIdToString(Unwrap(m.validator_address))])]
                    /\ UNCHANGED log
               ELSE ReturnErr("transport error")

\* Mutant: a failed query is logged and an empty response used in its place.
QueryAccount_DefaultOnError ==
    /\ At("query")
    /\ \E r \in AccountResults(Unwrap(m.request).address) :
         /\ Call("account", r.ok)
         /\ Goto("account_any")
         /\ IF r.ok
            THEN /\ m' = [m EXCEPT !["account_info"] = Some(r.val)]
                 /\ UNCHANGED log
            ELSE /\ m' = [m EXCEPT !["account_info"] = Some([account |-> None])]
                 /\ log' = Append(log, LogLine("ERROR",
                                  "Failed to query account info", r.err))

\* Mutant: a failed query is logged and the query issued again.
QueryAccount_Retry ==
    /\ At("query")
    /\ \E r \in AccountResults(Unwrap(m.request).address) :
         /\ Call("account", r.ok)
         /\ IF r.ok
            THEN /\ Goto("account_any")
                 /\ m' = [m EXCEPT !["account_info"] = Some(r.val)]
                 /\ UNCHANGED log
            ELSE /\ Goto("query")
                 /\ log' = Append(log, LogLine("ERROR",
                                  "Failed to query account info", r.err))
                 /\ UNCHANGED m

\* query_client.account(request).await
QueryAccount ==
    /\ At("query")
    /\ \E r \in AccountResults(Unwrap(m.request).address) :
         /\ Call("account", r.ok)
         /\ IF r.ok
            THEN /\ Goto("account_any")
                 /\ m' = [m EXCEPT !["account_info"] = Some(r.val)]
                 /\ UNCHANGED log
            ELSE LogAndReturnErr("Failed to query account info", r.err)

\* account_info.into_inner().account.unwrap()
UnwrapAccount ==
    /\ At("account_any")
    /\ LET account == Unwrap(m.account_info).account IN
       IF IsSome(account)
       THEN Assign("base_account", "account_any", Unwrap(account))
       ELSE /\ Panic("called Option::unwrap() on a None value")
            /\ UNCHANGED net

\* Mutant: an account that does not decode is replaced by the default record.
DecodeBaseAccount_DefaultOnError ==
    /\ At("base_account")
    /\ LET r == BaseAccountDecode(Unwrap(m.account_any).value)
           acct == IF r.ok THEN r.val ELSE DefaultBaseAccount IN
       /\ Goto("chain_id")
       /\ m' = [m EXCEPT
            !["base_account"] = Some(acct),
            !["account_number"] = Some(acct.account_number),
            !["sequence_number"] = Some(acct.sequence)]
       /\ UNCHANGED << log, net >>

\* BaseAccount::decode(account_any.value.as_slice()), then
\* account_number and sequence_number are read from it
DecodeBaseAccount ==
    /\ At("base_account")
    /\ LET r == BaseAccountDecode(Unwrap(m.account_any).value) IN
       IF r.ok
       THEN /\ Goto("chain_id")
            /\ m' = [m EXCEPT
                 !["base_account"] = Some(r.val),
                 !["account_number"] = Some(r.val.account_number),
                 !["sequence_number"] = Some(r.val.sequence)]
            /\ UNCHANGED << log, net >>
       ELSE /\ LogAndReturnErr("Failed to decode BaseAccount", r.err)
            /\ UNCHANGED net

\* Id::from_str(&args.chain_id)
ParseChainId ==
    /\ At("chain_id")
    /\ LET r == ChainIdFromStr(args.chain_id) IN
       IF r.ok
       THEN Assign("sign_doc", "chain_id", r.val)
       ELSE /\ LogAndReturnErr("Failed to parse chain ID", r.err)
            /\ UNCHANGED net

\* Mutant: the sequence is that of the default record (0), whatever the
\* node answered.
SignerSequence_Zero == DefaultBaseAccount.sequence

\* The sequence number handed to SignerInfo::single_direct.
SignerSequence == Unwrap(m.sequence_number)

\* The account number handed to SignDoc::new.
SignDocAccountNumber == Unwrap(m.account_number)

\* SignerInfo::single_direct(Some(signing_key.public_key()), sequence_number)
\* and SignDoc::new(&tx_body, &AuthInfo { fee, signer_infos }, &chain_id,
\* account_number)
CreateSignDoc ==
    /\ At("sign_doc")
    /\ LET signer_info ==
               SignerInfoSingleDirect(PublicKey(Unwrap(m.signing_key)),
                                      SignerSequence)
           doc == SignDocNew(Unwrap(m.tx_body),
                             [fee |-> Unwrap(m.fee),
                              signer_infos |-> << signer_info >>],
                             Unwrap(m.chain_id),
                             SignDocAccountNumber)
       IN \E r \in LibResults(doc, "encode error") :
            IF r.ok
            THEN /\ Goto("sign")
                 /\ m' = [m EXCEPT !["signer_info"] = Some(signer_info),
                                   !["sign_doc"] = Some(r.val)]
                 /\ UNCHANGED << log, net >>
            ELSE /\ LogAndReturnErr("Failed to create sign doc", r.err)
                 /\ UNCHANGED net

\* sign_doc.sign(&signing_key)
Sign ==
    /\ At("sign")
    /\ \E r \in LibResults(SignDocSign(Unwrap(m.sign_doc), Unwrap(m.signing_key)),
                           "signature error") :
         IF r.ok
         THEN Assign("client", "tx_raw", r.val)
         ELSE /\ LogAndReturnErr("Failed to sign transaction", r.err)
              /\ UNCHANGED net

\* cosmrs::rpc::HttpClient::new(args.rpc_url.as_str())
CreateClient ==
    /\ At("client")
    /\ LET r == HttpClientNew(args.rpc_url) IN
       IF r.ok
       THEN Assign("tx_bytes", "client", r.val)
       ELSE /\ LogAndReturnErr("Failed to create client", "")
            /\ UNCHANGED net

\* tx_raw.to_bytes()
ToBytes ==
    /\ At("tx_bytes")
    /\ \E r \in LibResults([encoded |-> Unwrap(m.tx_raw)], "encode error") :
         IF r.ok
         THEN Assign("broadcast", "tx_bytes", r.val)
         ELSE /\ LogAndReturnErr("Failed to convert transaction to bytes", r.err)
              /\ UNCHANGED net

\* client.broadcast_tx_commit(tx_bytes).await
Broadcast ==
    /\ At("broadcast")
    /\ \E r \in BroadcastResults :
         /\ Call("broadcast", r.ok)
         /\ IF r.ok
            THEN /\ Goto("print")
                 /\ m' = [m EXCEPT !["response"] = Some(r.val)]
                 /\ UNCHANGED log
            ELSE LogAndReturnErr("Failed to broadcast transaction", r.err)

\* The Debug rendering of the response: every field with its value.
DebugFormat(response) == [debug |-> response]

\* Mutant: only the transaction hash is printed.
PrintResponse_HashOnly ==
    /\ At("print")
    /\ stdout' = Append(stdout, [ctx |-> "Response",
                                 detail |-> [debug |->
                                     [hash |-> Unwrap(m.response).hash]]])
    /\ status' = "ok"
    /\ UNCHANGED << args, key_file, pc, m, log, stderr, net >>

\* Mutant: a response with a non-zero result code makes main return Err.
PrintResponse_FailOnRejection ==
    /\ At("print")
    /\ LET r == Unwrap(m.response) IN
       IF r.check_tx.code # 0 \/ r.tx_result.code # 0
       THEN /\ LogAndReturnErr("Transaction rejected", r.check_tx.log)
            /\ UNCHANGED net
       ELSE /\ stdout' = Append(stdout, [ctx |-> "Response",
                                         detail |-> DebugFormat(r)])
            /\ status' = "ok"
            /\ UNCHANGED << args, key_file, pc, m, log, stderr, net >>

\* println!("Response: {:?}", response); Ok(())
PrintResponse ==
    /\ At("print")
    /\ stdout' = Append(stdout, [ctx |-> "Response",
                                 detail |-> DebugFormat(Unwrap(m.response))])
    /\ status' = "ok"
    /\ UNCHANGED << args, key_file, pc, m, log, stderr, net >>

Next ==
    \/ Start
    \/ ReadKey
    \/ DecodeKey
    \/ CreateSigningKey
    \/ DeriveValidatorAddress
    \/ DeriveOperatorAddress
    \/ CreateMsg
    \/ ToAny
    \/ CreateBody
    \/ CreateFee
    \/ Connect
    \/ QueryAccount
    \/ UnwrapAccount
    \/ DecodeBaseAccount
    \/ ParseChainId
    \/ CreateSignDoc
    \/ Sign
    \/ CreateClient
    \/ ToBytes
    \/ Broadcast
    \/ PrintResponse

Spec == Init /\ [][Next]_vars

\* ------------------------------------------------- reading a run's state
\* The pipeline stage a statement of main belongs to: 1 key material,
\* 2 message, 3 account query, 4 assembly and signing, 5 broadcast.
StageOf(label) ==
    CASE label \in {"start", "read_key", "hex_decode", "signing_key",
                    "validator_address", "validator_operator_address"} -> 1
      [] label \in {"msg", "any"} -> 2
      [] label \in {"connect", "query", "account_any", "base_account"} -> 3
      [] label \in {"tx_body", "fee", "chain_id", "sign_doc", "sign"} -> 4
      [] label \in {"client", "tx_bytes", "broadcast", "print"} -> 5

Finished == status # "running"
Failed == status \in {"err", "panic"}

CallsTo(name) == {i \in 1..Len(net) : net[i].call = name}
FailedCalls == {i \in 1..Len(net) : ~net[i].ok}
ErrorLines == {i \in 1..Len(log) : log[i].level = "ERROR"}
LastError == stderr[Len(stderr)]

\* Nothing of stage 4 or 5 has happened.
NoSigningNoBroadcast ==
    /\ m.chain_id = None /\ m.signer_info = None /\ m.sign_doc = None
    /\ m.tx_raw = None /\ m.client = None /\ m.tx_bytes = None
    /\ m.response = None
    /\ CallsTo("broadcast") = {}

C2_AccountQueryFailure ==
    \A i \in FailedCalls :
        net[i].call \in {"connect", "account"} =>
            /\ status = "err"
            /\ pc = (IF net[i].call = "connect" THEN "connect" ELSE "query")
            /\ StageOf(pc) = 3
            /\ Len(stderr) = 1
            /\ net[i].call = "account" =>
                   LastError.ctx = "Failed to query account info"
            /\ m.account_info = None
            /\ NoSigningNoBroadcast

C2_Witness ==
    /\ status = "err" /\ pc = "query"
    /\ \E i \in FailedCalls : net[i].call = "account"

C2_WitnessUnreachable ==
    /\ status = "err" /\ pc = "connect"
    /\ \E i \in FailedCalls : net[i].call = "connect"

\* The response of the account query carries no account, or one that does
\* not decode into a BaseAccount.
UnusableAccount ==
    /\ IsSome(m.account_info)
    /\ LET account == Unwrap(m.account_info).account IN
         \/ account = None
         \/ ~BaseAccountDecode(Unwrap(account).value).ok

\* C3: when the account query succeeds but its response has no account, or
\* an account that does not decode, the run ends with a reported error (an
\* error line and main returning Err, as at every other failure), and
\* nothing is signed or broadcast.
C3_MissingAccountIsReportedError ==
    (Finished /\ UnusableAccount) =>
        /\ status = "err"
        /\ ErrorLines # {}
        /\ LastError.ctx \in {"Failed to query account info",
                              "Failed to decode BaseAccount"}
        /\ NoSigningNoBroadcast

\* A response whose CheckTx or DeliverTx result code is not zero.
Rejected(response) == response.check_tx.code # 0 \/ response.tx_result.code # 0

\* C4: a broadcast that succeeds on the transport but returns a non-zero
\* result code is shown to the caller: the output carries the response's
\* result codes and log texts as the node returned them, and it cannot be
\* taken for a transport failure (which prints no response and logs the
\* broadcast error).
C4_RejectionIsSurfaced ==
    /\ (status = "ok" /\ Rejected(Unwrap(m.response))) =>
          /\ Len(stdout) = 1
          /\ stdout[1].ctx = "Response"
          /\ LET shown == stdout[1].detail
                 r == Unwrap(m.response) IN
               /\ shown = DebugFormat(r)
               /\ shown.debug.check_tx = r.check_tx
               /\ shown.debug.tx_result = r.tx_result
               /\ Rejected(shown.debug)
          /\ ErrorLines = {} /\ stderr = << >>
    /\ (\E i \in FailedCalls : net[i].call = "broadcast") =>
          /\ stdout = << >>
          /\ status = "err"
          /\ LastError.ctx = "Failed to broadcast transaction"
          /\ \E i \in ErrorLines : log[i].ctx = "Failed to broadcast transaction"

C4_Witness ==
    /\ status = "ok"
    /\ Unwrap(m.response).check_tx.code # 0
    /\ stdout[1].detail.debug.check_tx.log = "insufficient fee"

\* C5: a finished run exits with status zero exactly when it obtained a
\* broadcast response, whatever result code the response carries; every
\* other finished run exits non-zero with a message.
C5_ExitStatus ==
    /\ Finished =>
          /\ (ExitCode = 0) <=> IsSome(m.response)
          /\ (ExitCode # 0) =>
                /\ Len(stderr) = 1
                /\ LastError.ctx # "" \/ LastError.detail # ""
    /\ (IsSome(m.response) /\ ~Finished) => pc = "print"

C5_Witness ==
    /\ status = "ok" /\ ExitCode = 0
    /\ Rejected(Unwrap(m.response))

C5_WitnessFailure == status = "err" /\ ExitCode = ExitFailure /\ pc = "broadcast"

\* C6: every run has one terminal outcome: the printed broadcast response
\* and nothing else, or exactly one error; every failure, whatever its
\* statement, leaves exactly one error log line naming what failed and the
\* cause; nothing runs after a failure.
C6_EveryFailureLogged ==
    /\ status = "ok" =>
          /\ Len(stdout) = 1 /\ stderr = << >> /\ ErrorLines = {}
    /\ Failed =>
          /\ stdout = << >> /\ Len(stderr) = 1
          /\ Cardinality(ErrorLines) = 1
          /\ \A i \in ErrorLines : log[i].ctx # "" /\ i = Len(log)
    /\ Finished => ~ENABLED Next

\* C7: the account query goes out at most once and the broadcast at most
\* once (and so does the connection); a remote call that failed is the
\* last remote call of the run, and the run has ended with it.
C7_NoRetries ==
    /\ Cardinality(CallsTo("connect")) <= 1
    /\ Cardinality(CallsTo("account")) <= 1
    /\ Cardinality(CallsTo("broadcast")) <= 1
    /\ \A i \in FailedCalls : i = Len(net) /\ status = "err"

C7_Witness ==
    /\ Finished
    /\ Cardinality(CallsTo("account")) = 1
    /\ Cardinality(CallsTo("broadcast")) = 1
    /\ FailedCalls # {}

\* What the earlier statements of main have assigned when they succeeded.
KeyLoaded ==
    /\ IsSome(m.private_key) /\ IsSome(m.decoded_private_key)
    /\ IsSome(m.signing_key)
AddressesDerived ==
    IsSome(m.validator_address) /\ IsSome(m.validator_operator_address)
MessageEncoded == IsSome(m.msg) /\ IsSome(m.any)
AccountResolved ==
    /\ \E i \in CallsTo("account") : net[i].ok
    /\ IsSome(m.account_info)
    /\ IsSome(Unwrap(m.account_info).account)
    /\ BaseAccountDecode(Unwrap(Unwrap(m.account_info).account).value).ok
    /\ IsSome(m.base_account)

\* C8: control only moves forward: the account query is issued only with
\* the key loaded, both addresses derived and the message encoded; a
\* signing document or signature exists only after the account query
\* succeeded and decoded; the broadcast is issued only when every earlier
\* step succeeded.
C8_StrictlyForward ==
    /\ CallsTo("account") # {} =>
          /\ KeyLoaded /\ AddressesDerived /\ MessageEncoded
          /\ \E i \in CallsTo("connect") : net[i].ok
    /\ (IsSome(m.sign_doc) \/ IsSome(m.tx_raw)) =>
          /\ AccountResolved
          /\ IsSome(m.chain_id)
    /\ IsSome(m.tx_raw) => IsSome(m.sign_doc)
    /\ CallsTo("broadcast") # {} =>
          /\ KeyLoaded /\ AddressesDerived /\ MessageEncoded
          /\ IsSome(m.tx_body) /\ IsSome(m.fee)
          /\ AccountResolved
          /\ IsSome(m.chain_id) /\ IsSome(m.sign_doc) /\ IsSome(m.tx_raw)
          /\ IsSome(m.client) /\ IsSome(m.tx_bytes)
          /\ \A i \in 1..(Len(net) - 1) : net[i].ok
          /\ ErrorLines \subseteq {Len(log)}

C8_Witness ==
    /\ CallsTo("broadcast") # {}
    /\ status = "ok"

\* The signing key the key file holds.
LoadedKey == SigningKeyFromSlice(HexDecode(Trim(Unwrap(key_file))).val).val

\* The account address of the loaded key, as the query names it.
LoadedAddress ==
    AccountIdToString(AccountId(PublicKey(LoadedKey), PrefixAccount).val)

C10_ChainIdCheckedAfterQuery ==
    /\ (Failed /\ LastError.ctx = "Failed to parse chain ID") =>
          /\ pc = "chain_id"
          /\ \E i \in CallsTo("account") : net[i].ok
          /\ IsSome(m.base_account)
    /\ ~ChainIdFromStr(args.chain_id).ok =>
          /\ m.chain_id = None /\ m.sign_doc = None /\ m.tx_raw = None
          /\ CallsTo("broadcast") = {}
          /\ (status = "err" /\ pc = "chain_id") =>
                 LastError.ctx = "Failed to parse chain ID"
    /\ (~HeightTryFrom(args.timeout_height).ok
        \/ ~CoinNew(FeeAmount, args.denom).ok) =>
          /\ net = << >>
          /\ StageOf(pc) \in {1, 2} \/ pc \in {"tx_body", "fee"}

C10_Witness ==
    /\ ~ChainIdFromStr(args.chain_id).ok
    /\ status = "err" /\ pc = "chain_id"
    /\ CallsTo("account") # {}

C10_WitnessEarly ==
    /\ ~CoinNew(FeeAmount, args.denom).ok
    /\ status = "err" /\ pc = "fee" /\ net = << >>
====
